---------------------------- MODULE Spec2Model ----------------------------
(***************************************************************************)
(* Model of nodejs-thread:                                                 *)
(*   Thread   - promise wrapper around one worker_threads Worker           *)
(*   Queue    - pool of Threads fed from a FIFO backlog                    *)
(*   Parallel - single-threaded bounded-concurrency runner                 *)
(*                                                                         *)
(* The coordinator is one JavaScript event loop: every public call and     *)
(* every worker event runs to completion (with the promise reactions it    *)
(* triggers) before the next one starts, so each is one action.            *)
(***************************************************************************)
EXTENDS Integers, Sequences, FiniteSets, TLC

\* ------------------------------------------------------------------ bounds
Concurrences == {1, 2}  \* the concurrence a pool is built with
MaxInit == 2            \* calls of initialize()
MaxItems == 3           \* items posted over a run
MaxOnce == 1            \* calls of post(items, true)
MaxExec == 3            \* calls of Thread.Execute
MaxCount == 4           \* a Parallel is built with count 1..MaxCount
MaxResume == 2          \* calls of Parallel.resume() that pass its guard
MaxWait == 1            \* calls of Parallel.waitFinish()

VARIABLES
    _concurrence,       \* Queue._concurrence
    _active,            \* Queue._active
    _queue,             \* Queue._queue: the backlog, item ids
    _availableThread,   \* Queue._availableThread: idle indices (0-based)
    _pool,              \* Queue._pool: the Threads, each with its Worker
    _onceResolver,      \* Queue._onceResolver: 0 (unset) or the post() whose res it is
    requests,           \* the promises returned by Thread.post, in dispatch order
    posts,              \* the promises returned by Queue.post(items, true), in call order
    posted,             \* items handed to post() so far; they are numbered 1..posted
    hung,               \* the event loop is inside a loop that cannot end
    crashed,            \* the process was ended by an unhandled rejection
    stopping,           \* a stop() call is inside its polling loop
    inits,              \* initialize() calls so far
    \* Thread.Execute
    execs,              \* the calls of Thread.Execute, each with its Thread
    \* Parallel
    count,              \* Parallel.count
    concurrency,        \* Parallel.concurrency
    offsetCount,        \* Parallel.offsetCount: the cursor
    processingCount,    \* Parallel.processingCount
    paused,             \* Parallel.paused
    finishHandler,      \* Parallel.finishHandler: 0 (unset) or the waitFinish() whose res it is
    units,              \* the consume() invocations, in call order
    waits,              \* the promises returned by waitFinish(): resolved or not
    pauses,             \* the promise returned by the latest pause(), if any
    failed,             \* some call of the handler has rejected
    signals,            \* calls of finishHandler() so far
    started,            \* start() has run
    resumes             \* resume() calls that passed the guard

qvars == <<_concurrence, _active, _queue, _availableThread, _pool,
           _onceResolver, requests, posts, posted, hung, crashed, stopping,
           inits>>

pvars == <<count, concurrency, offsetCount, processingCount, paused,
           finishHandler, units, waits, pauses, failed, signals, started,
           resumes>>

vars == <<qvars, execs, pvars>>

\* ------------------------------------------------------------------ Thread

\* new Thread(script): a running Worker, no resolver yet
NewThread == [worker |-> "running", inbox |-> 0, resolver |-> 0, closed |-> FALSE]

\* Thread.post(value) for request r: the pending pair is overwritten and one
\* message is sent; a worker that is no longer running never reads it.
ThreadPost(th, r) ==
    [th EXCEPT !.resolver = r,
               !.inbox = IF th.worker = "running" THEN @ + 1 ELSE @]

\* Thread.close(): worker.terminate(); the exit event follows later
ThreadClose(th) ==
    [th EXCEPT !.closed = TRUE,
               !.inbox = 0,
               !.worker = IF @ = "running" THEN "exiting" ELSE @]

\* ------------------------------------------------------------------ Queue

\* The Queue object (with the promises it created) as one value.
Q == [active |-> _active, queue |-> _queue, avail |-> _availableThread,
      pool |-> _pool, once |-> _onceResolver, requests |-> requests,
      posts |-> posts, posted |-> posted, hung |-> hung, crashed |-> crashed,
      n |-> _concurrence]

SetQ(s) ==
    /\ _active' = s.active
    /\ _queue' = s.queue
    /\ _availableThread' = s.avail
    /\ _pool' = s.pool
    /\ _onceResolver' = s.once
    /\ requests' = s.requests
    /\ posts' = s.posts
    /\ posted' = s.posted
    /\ hung' = s.hung
    /\ crashed' = s.crashed
    /\ _concurrence' = s.n
    /\ UNCHANGED <<execs, pvars>>

\* The request _consume creates for item on threadIdx
NewRequest(item, threadIdx) ==
    [item |-> item, idx |-> threadIdx, state |-> "pending", pushes |-> 0,
     calls |-> 0, error |-> FALSE]

\* _consume without this._queue.shift(): the item stays in the backlog
ConsumeKeepItem(s) ==
    IF ~s.active \/ Len(s.avail) = 0 \/ Len(s.queue) = 0
    THEN s
    ELSE LET threadIdx == Head(s.avail)
         IN [s EXCEPT !.avail = Tail(@),
                      !.pool[threadIdx + 1] = ThreadPost(@, Len(s.requests) + 1),
                      !.requests = Append(@, NewRequest(Head(s.queue), threadIdx))]

\* _consume with this._queue.pop() in place of shift(): newest item first
ConsumeLast(s) ==
    IF ~s.active \/ Len(s.avail) = 0 \/ Len(s.queue) = 0
    THEN s
    ELSE LET threadIdx == Head(s.avail)
         IN [s EXCEPT !.queue = SubSeq(@, 1, Len(@) - 1),
                      !.avail = Tail(@),
                      !.pool[threadIdx + 1] = ThreadPost(@, Len(s.requests) + 1),
                      !.requests = Append(@, NewRequest(s.queue[Len(s.queue)],
                                                        threadIdx))]

\* _consume without the !this._active test
ConsumeIgnoringActive(s) ==
    IF Len(s.avail) = 0 \/ Len(s.queue) = 0
    THEN s
    ELSE LET threadIdx == Head(s.avail)
         IN [s EXCEPT !.queue = Tail(@),
                      !.avail = Tail(@),
                      !.pool[threadIdx + 1] = ThreadPost(@, Len(s.requests) + 1),
                      !.requests = Append(@, NewRequest(Head(s.queue), threadIdx))]

\* Queue._consume
Consume(s) ==
    IF ~s.active \/ Len(s.avail) = 0 \/ Len(s.queue) = 0
    THEN s
    ELSE LET item == Head(s.queue)
             threadIdx == Head(s.avail)
             r == Len(s.requests) + 1
         IN [s EXCEPT !.queue = Tail(@),
                      !.avail = Tail(@),
                      !.pool[threadIdx + 1] = ThreadPost(@, r),
                      !.requests = Append(@, NewRequest(item, threadIdx))]

\* Queue._fillThreads: the loop ends when its condition fails; a _consume that
\* changes nothing leaves the condition true for ever.
RECURSIVE FillThreads(_)
FillThreads(s) ==
    IF Len(s.avail) > 0 /\ Len(s.queue) > 0
    THEN LET t == Consume(s)
         IN IF t = s THEN [s EXCEPT !.hung = TRUE] ELSE FillThreads(t)
    ELSE s

\* _resolve without the this._queue.length === 0 test
ResolveNoDrainTest(s, r, err) ==
    LET s1 == [s EXCEPT !.avail = Append(@, s.requests[r].idx),
                        !.requests[r].pushes = @ + 1,
                        !.requests[r].calls = @ + 1,
                        !.requests[r].error = err]
        s2 == FillThreads(s1)
    IN IF s2.hung THEN s2
       ELSE IF s2.once # 0
            THEN [s2 EXCEPT !.posts[s2.once].resolved = TRUE]
            ELSE s2

\* Queue._resolve(threadIdx, err, response) for request r, in a Queue built
\* with a handler: pushes counts the times the index was pushed back for the
\* request, calls the handler's invocations for it, error tells whether the
\* last one got an Error
Resolve(s, r, err) ==
    LET s1 == [s EXCEPT !.avail = Append(@, s.requests[r].idx),
                        !.requests[r].pushes = @ + 1,
                        !.requests[r].calls = @ + 1,
                        !.requests[r].error = err]
        s2 == FillThreads(s1)
    IN IF s2.hung THEN s2
       ELSE IF s2.once # 0 /\ Len(s2.queue) = 0
            THEN [s2 EXCEPT !.posts[s2.once].resolved = TRUE]
            ELSE s2

\* Thread._receiveMessage(err, data) on pool slot p, followed by the reactions
\* Queue._consume attached to the promise (.then / .catch -> _resolve).
\* kind: "ok" (a reply), "null" (resolved with null), "err" (rejected).
ReceiveMessage(s, p, kind) ==
    LET r == s.pool[p].resolver
    IN IF r = 0 THEN s
       ELSE IF s.requests[r].state # "pending" THEN s
       ELSE Resolve([s EXCEPT !.requests[r].state = kind], r, kind = "err")

\* Queue._resolve left by an exception of the handler: the index is pushed
\* and the handler called, _fillThreads and the _onceResolver test are skipped
ResolveThrows(s, r, err) ==
    [s EXCEPT !.avail = Append(@, s.requests[r].idx),
              !.requests[r].pushes = @ + 1,
              !.requests[r].calls = @ + 1,
              !.requests[r].error = err]

\* Thread._receiveMessage on pool slot p with a handler that throws.  After a
\* reply the exception rejects the promise of .then, so the .catch reaction
\* calls _resolve a second time, with the exception as err; again tells
\* whether the handler throws in that call too.  An exception in the .catch
\* reaction is an unhandled rejection, which ends the process or is only
\* reported, depending on the Node version and its flags (crash).
ReceiveMessageThrows(s, p, kind, again, crash) ==
    LET r == s.pool[p].resolver
    IN IF r = 0 THEN s
       ELSE IF s.requests[r].state # "pending" THEN s
       ELSE LET s0 == [s EXCEPT !.requests[r].state = kind]
            IN IF kind = "err"
               THEN [ResolveThrows(s0, r, TRUE) EXCEPT !.crashed = crash]
               ELSE LET s1 == ResolveThrows(s0, r, FALSE)
                    IN IF again
                       THEN [ResolveThrows(s1, r, TRUE) EXCEPT !.crashed = crash]
                       ELSE Resolve(s1, r, TRUE)

RECURSIVE CloseAll(_, _)
CloseAll(pool, k) ==
    IF k > Len(pool) THEN pool
    ELSE CloseAll([pool EXCEPT ![k] = ThreadClose(@)], k + 1)

\* ------------------------------------------------------------------ actions

InitQ ==
    /\ _concurrence \in Concurrences
    /\ _active = FALSE
    /\ _queue = <<>>
    /\ _availableThread = <<>>
    /\ _pool = <<>>
    /\ _onceResolver = 0
    /\ requests = <<>>
    /\ posts = <<>>
    /\ posted = 0
    /\ hung = FALSE
    /\ crashed = FALSE
    /\ stopping = FALSE
    /\ inits = 0

\* Queue.initialize()
InitializeQ(s) ==
    FillThreads([s EXCEPT
        !.active = TRUE,
        !.pool = @ \o [i \in 1..s.n |-> NewThread],
        !.avail = @ \o [i \in 1..s.n |-> i - 1]])

Initialize ==
    /\ ~hung
    /\ ~crashed
    /\ inits < MaxInit
    /\ inits' = inits + 1
    /\ SetQ(InitializeQ(Q))
    /\ UNCHANGED stopping

\* Queue.pause()
Pause ==
    /\ ~hung
    /\ ~crashed
    /\ SetQ([Q EXCEPT !.active = FALSE])
    /\ UNCHANGED <<stopping, inits>>

\* Queue.resume()
Resume ==
    /\ ~hung
    /\ ~crashed
    /\ SetQ(FillThreads([Q EXCEPT !.active = TRUE]))
    /\ UNCHANGED <<stopping, inits>>

\* Queue.post(items, once) with k items (k = 0: an empty array), numbered in
\* the order they are pushed.  A promise of post(items, false) is resolved
\* before post returns and is not kept.
PostQ(s, k, once) ==
    LET s1 == [s EXCEPT !.queue = @ \o [i \in 1..k |-> s.posted + i],
                        !.posted = @ + k]
        s2 == IF Len(s1.avail) > 0 THEN FillThreads(s1) ELSE s1
    IN IF s2.hung THEN s2
       ELSE IF once
            THEN [s2 EXCEPT !.once = Len(s.posts) + 1,
                            !.posts = Append(@, [last |-> s.posted + k,
                                                 resolved |-> FALSE])]
            ELSE s2

Post ==
    /\ ~hung
    /\ ~crashed
    /\ \E k \in 0..(MaxItems - posted), once \in BOOLEAN :
          /\ once => Len(posts) < MaxOnce
          /\ SetQ(PostQ(Q, k, once))
    /\ UNCHANGED <<stopping, inits>>

\* Queue.stop(): the loop test and, when it fails, the closing of the pool
StopCheck(s) ==
    IF Len(s.avail) # s.n THEN s
    ELSE [s EXCEPT !.pool = CloseAll(@, 1)]

\* Queue.stop() up to its first await (one stop() call at a time)
Stop ==
    /\ ~hung
    /\ ~crashed
    /\ ~stopping
    /\ LET s == [Q EXCEPT !.active = FALSE]
       IN /\ SetQ(StopCheck(s))
          /\ stopping' = (Len(s.avail) # s.n)
    /\ UNCHANGED inits

\* Queue.stop(): a Thread.Sleep(1000) of the polling loop has elapsed
StopPoll ==
    /\ ~hung
    /\ ~crashed
    /\ stopping
    /\ SetQ(StopCheck(Q))
    /\ stopping' = (Len(_availableThread) # _concurrence)
    /\ UNCHANGED inits

\* worker "message" event: the worker answered one message
WorkerMessage(p) ==
    /\ ~hung
    /\ ~crashed
    /\ _pool[p].worker = "running"
    /\ _pool[p].inbox > 0
    /\ SetQ(ReceiveMessage([Q EXCEPT !.pool[p].inbox = @ - 1], p, "ok"))
    /\ UNCHANGED <<stopping, inits>>

\* worker "error" event: an uncaught exception while working on a message;
\* the worker is terminated and its exit event follows
WorkerError(p) ==
    /\ ~hung
    /\ ~crashed
    /\ _pool[p].worker = "running"
    /\ _pool[p].inbox > 0
    /\ SetQ(ReceiveMessage([Q EXCEPT !.pool[p].inbox = 0,
                                     !.pool[p].worker = "exiting"], p, "err"))
    /\ UNCHANGED <<stopping, inits>>

\* worker "exit" event with exit code: the worker ended by itself while
\* working on a message (code 0 or not), or after an error or terminate()
\* (code 1)
WorkerExit(p, code) ==
    /\ ~hung
    /\ ~crashed
    /\ \/ _pool[p].worker = "running" /\ _pool[p].inbox > 0
       \/ _pool[p].worker = "exiting" /\ code = 1
    /\ SetQ(ReceiveMessage([Q EXCEPT !.pool[p].inbox = 0,
                                     !.pool[p].worker = "exited"], p,
                           IF code = 0 THEN "err" ELSE "null"))
    /\ UNCHANGED <<stopping, inits>>

\* _availableThread only ever holds 0.._concurrence-1, so only the first
\* _concurrence slots of _pool are posted to; an event of any other Thread
\* finds no resolver and returns (_receiveMessage, first test).
Worker ==
    \E p \in 1..(IF Len(_pool) < _concurrence THEN Len(_pool) ELSE _concurrence) :
        \/ WorkerMessage(p)
        \/ WorkerError(p)
        \/ \E code \in {0, 1} : WorkerExit(p, code)

Next ==
    \/ Initialize
    \/ Pause
    \/ Resume
    \/ Post
    \/ Stop
    \/ StopPoll
    \/ Worker

\* the event that comes next on slot p settles a request, so that the handler
\* given to the Queue is called
HandlerCalled(p) ==
    /\ _pool[p].resolver # 0
    /\ requests[_pool[p].resolver].state = "pending"

\* worker "message" event, the handler throwing
WorkerMessageThrows(p, again, crash) ==
    /\ ~hung
    /\ ~crashed
    /\ _pool[p].worker = "running"
    /\ _pool[p].inbox > 0
    /\ HandlerCalled(p)
    /\ SetQ(ReceiveMessageThrows([Q EXCEPT !.pool[p].inbox = @ - 1], p, "ok",
                                 again, crash))
    /\ UNCHANGED <<stopping, inits>>

\* worker "error" event, the handler throwing
WorkerErrorThrows(p, crash) ==
    /\ ~hung
    /\ ~crashed
    /\ _pool[p].worker = "running"
    /\ _pool[p].inbox > 0
    /\ HandlerCalled(p)
    /\ SetQ(ReceiveMessageThrows([Q EXCEPT !.pool[p].inbox = 0,
                                           !.pool[p].worker = "exiting"], p,
                                 "err", FALSE, crash))
    /\ UNCHANGED <<stopping, inits>>

\* worker "exit" event, the handler throwing
WorkerExitThrows(p, code, again, crash) ==
    /\ ~hung
    /\ ~crashed
    /\ \/ _pool[p].worker = "running" /\ _pool[p].inbox > 0
       \/ _pool[p].worker = "exiting" /\ code = 1
    /\ HandlerCalled(p)
    /\ SetQ(ReceiveMessageThrows([Q EXCEPT !.pool[p].inbox = 0,
                                           !.pool[p].worker = "exited"], p,
                                 IF code = 0 THEN "err" ELSE "null",
                                 again, crash))
    /\ UNCHANGED <<stopping, inits>>

WorkerThrows ==
    \E p \in 1..(IF Len(_pool) < _concurrence THEN Len(_pool) ELSE _concurrence) :
        \E again \in BOOLEAN, crash \in BOOLEAN :
            \/ WorkerMessageThrows(p, again, crash)
            \/ WorkerErrorThrows(p, crash)
            \/ \E code \in {0, 1} : WorkerExitThrows(p, code, again, crash)

\* the Queue with a handler that may throw
NextThrows ==
    \/ Next
    \/ WorkerThrows

\* ------------------------------------------------------------------ Thread.Execute

\* no Thread.Execute call yet
NoExec == execs = <<>>

\* Thread.Execute up to its await: new Thread(script), thread.post(data)
ExecuteStart == [thread |-> ThreadPost(NewThread, 1), state |-> "pending",
                 result |-> "none"]

\* Thread._receiveMessage on the Thread of call c, then Thread.Execute from
\* its await on: a rejection leaves the function at the await.
ExecuteSettle(c, kind) ==
    IF c.thread.resolver = 0 \/ c.state # "pending" THEN c
    ELSE IF kind = "err"
         THEN [c EXCEPT !.state = "err", !.result = "rejected"]
         ELSE [c EXCEPT !.state = kind, !.result = "resolved",
                        !.thread = ThreadClose(@)]

ExecuteCall ==
    /\ Len(execs) < MaxExec
    /\ execs' = Append(execs, ExecuteStart)
    /\ UNCHANGED <<qvars, pvars>>

ExecMessage(e) ==
    /\ execs[e].thread.worker = "running"
    /\ execs[e].thread.inbox > 0
    /\ execs' = [execs EXCEPT ![e] =
                    ExecuteSettle([@ EXCEPT !.thread.inbox = @ - 1], "ok")]
    /\ UNCHANGED <<qvars, pvars>>

ExecError(e) ==
    /\ execs[e].thread.worker = "running"
    /\ execs[e].thread.inbox > 0
    /\ execs' = [execs EXCEPT ![e] =
                    ExecuteSettle([@ EXCEPT !.thread.inbox = 0,
                                            !.thread.worker = "exiting"], "err")]
    /\ UNCHANGED <<qvars, pvars>>

ExecExit(e, code) ==
    /\ \/ execs[e].thread.worker = "running" /\ execs[e].thread.inbox > 0
       \/ execs[e].thread.worker = "exiting" /\ code = 1
    /\ execs' = [execs EXCEPT ![e] =
                    ExecuteSettle([@ EXCEPT !.thread.inbox = 0,
                                            !.thread.worker = "exited"],
                                  IF code = 0 THEN "err" ELSE "null")]
    /\ UNCHANGED <<qvars, pvars>>

ExecWorker ==
    \E e \in 1..Len(execs) :
        \/ ExecMessage(e)
        \/ ExecError(e)
        \/ \E code \in {0, 1} : ExecExit(e, code)

NextExecute ==
    \/ ExecuteCall
    \/ ExecWorker

\* ------------------------------------------------------------------ Parallel

\* The Parallel object (with the promises it created) as one value.
P == [count |-> count, concurrency |-> concurrency, offsetCount |-> offsetCount,
      processingCount |-> processingCount, paused |-> paused,
      finishHandler |-> finishHandler, units |-> units, waits |-> waits,
      pauses |-> pauses, failed |-> failed, signals |-> signals]

SetP(s) ==
    /\ count' = s.count
    /\ concurrency' = s.concurrency
    /\ offsetCount' = s.offsetCount
    /\ processingCount' = s.processingCount
    /\ paused' = s.paused
    /\ finishHandler' = s.finishHandler
    /\ units' = s.units
    /\ waits' = s.waits
    /\ pauses' = s.pauses
    /\ failed' = s.failed
    /\ signals' = s.signals
    /\ UNCHANGED <<qvars, execs>>

\* no Parallel built
NoParallel ==
    /\ count = 0
    /\ concurrency = 0
    /\ offsetCount = 0
    /\ processingCount = 0
    /\ paused = FALSE
    /\ finishHandler = 0
    /\ units = <<>>
    /\ waits = <<>>
    /\ pauses = <<>>
    /\ failed = FALSE
    /\ signals = 0
    /\ started = FALSE
    /\ resumes = 0

\* new Parallel(options): concurrency is options.concurrency || options.count,
\* lowered to count
ParallelNew(n, c) ==
    LET width == IF c = 0 THEN n ELSE c
    IN [count |-> n, concurrency |-> IF n < width THEN n ELSE width,
        offsetCount |-> 0, processingCount |-> 0, paused |-> FALSE,
        finishHandler |-> 0, units |-> <<>>, waits |-> <<>>, pauses |-> <<>>,
        failed |-> FALSE, signals |-> 0]

\* Parallel.consume up to its first await: the unit is claimed and the
\* handler called with the cursor
ConsumeStart(s) ==
    [s EXCEPT !.processingCount = @ + 1,
              !.offsetCount = @ + 1,
              !.units = Append(@, [index |-> s.offsetCount + 1,
                                   phase |-> "handler", retried |-> 0])]

\* for (let i = 0; i < this.concurrency; i++) this.consume()
RECURSIVE ConsumeTimes(_, _)
ConsumeTimes(s, k) ==
    IF k <= 0 THEN s ELSE ConsumeTimes(ConsumeStart(s), k - 1)

\* Parallel.start
StartP(s) == ConsumeTimes(s, s.concurrency)

\* ConsumeEnd with the next unit claimed whenever the cursor is below count
ConsumeEndCursorOnly(s, u) ==
    LET s1 == [s EXCEPT !.processingCount = @ - 1, !.units[u].phase = "ended",
                        !.units[u].retried = 0]
    IN IF s1.offsetCount = s1.count
       THEN IF s1.finishHandler # 0
            THEN [s1 EXCEPT !.signals = @ + 1,
                            !.waits[s1.finishHandler] = TRUE]
            ELSE s1
       ELSE IF ~s1.paused /\ s1.offsetCount < s1.count
            THEN ConsumeStart(s1)
            ELSE s1

\* Parallel.consume from this.processingCount-- on, for invocation u; no
\* call of the handler is running for u any more
ConsumeEnd(s, u) ==
    LET s1 == [s EXCEPT !.processingCount = @ - 1, !.units[u].phase = "ended",
                        !.units[u].retried = 0]
    IN IF s1.offsetCount = s1.count
       THEN IF s1.finishHandler # 0
            THEN [s1 EXCEPT !.signals = @ + 1,
                            !.waits[s1.finishHandler] = TRUE]
            ELSE s1
       ELSE IF ~s1.paused /\ s1.offsetCount + s1.processingCount < s1.count
            THEN ConsumeStart(s1)
            ELSE s1

\* this.pause inside Parallel.pause is the method itself, never falsy
PauseMethod == TRUE

\* Parallel.pause; busy is the processing counter the call found.  The
\* polling loop of the second branch is never entered, the test before it
\* being always true.
PauseP(s) ==
    IF s.processingCount = 0 \/ PauseMethod
    THEN [s EXCEPT !.pauses = <<[busy |-> s.processingCount,
                                 resolved |-> TRUE]>>]
    ELSE [s EXCEPT !.paused = TRUE,
                   !.pauses = <<[busy |-> s.processingCount,
                                 resolved |-> FALSE]>>]

\* Parallel.resume
ResumeP(s) ==
    IF s.processingCount > 0 THEN s
    ELSE LET width == IF s.concurrency < s.count - s.concurrency
                      THEN s.concurrency ELSE s.count - s.concurrency
         IN ConsumeTimes([s EXCEPT !.paused = FALSE, !.concurrency = width],
                         width)

\* Parallel.waitFinish
WaitFinishP(s) ==
    IF s.offsetCount = s.count
    THEN [s EXCEPT !.waits = Append(@, TRUE)]
    ELSE [s EXCEPT !.waits = Append(@, FALSE),
                   !.finishHandler = Len(s.waits) + 1]

InitP ==
    /\ \E n \in 1..MaxCount, c \in 0..(MaxCount + 1) :
          /\ count = ParallelNew(n, c).count
          /\ concurrency = ParallelNew(n, c).concurrency
    /\ offsetCount = 0
    /\ processingCount = 0
    /\ paused = FALSE
    /\ finishHandler = 0
    /\ units = <<>>
    /\ waits = <<>>
    /\ pauses = <<>>
    /\ failed = FALSE
    /\ signals = 0
    /\ started = FALSE
    /\ resumes = 0

\* Parallel.create: start() right after the constructor
Start ==
    /\ ~started
    /\ started' = TRUE
    /\ SetP(StartP(P))
    /\ UNCHANGED resumes

PausePar ==
    /\ started
    /\ SetP(PauseP(P))
    /\ UNCHANGED <<started, resumes>>

ResumePar ==
    /\ started
    /\ processingCount = 0 => resumes < MaxResume
    /\ SetP(ResumeP(P))
    /\ resumes' = IF processingCount = 0 THEN resumes + 1 ELSE resumes
    /\ UNCHANGED started

WaitFinish ==
    /\ started
    /\ Len(waits) < MaxWait
    /\ SetP(WaitFinishP(P))
    /\ UNCHANGED <<started, resumes>>

\* the handler's promise for the first call of invocation u resolves
HandlerResolves(u) ==
    /\ units[u].phase = "handler"
    /\ SetP(ConsumeEnd(P, u))
    /\ UNCHANGED <<started, resumes>>

\* the first call rejects (or throws): consume waits 5000 ms
HandlerRejects(u) ==
    /\ units[u].phase = "handler"
    /\ SetP([P EXCEPT !.units[u].phase = "backoff", !.failed = TRUE])
    /\ UNCHANGED <<started, resumes>>

\* the 5000 ms have passed: the handler is called with the cursor as it is now
BackoffElapsed(u) ==
    /\ units[u].phase = "backoff"
    /\ SetP([P EXCEPT !.units[u].phase = "retry",
                       !.units[u].retried = offsetCount])
    /\ UNCHANGED <<started, resumes>>

\* the second call resolves
RetryResolves(u) ==
    /\ units[u].phase = "retry"
    /\ SetP(ConsumeEnd(P, u))
    /\ UNCHANGED <<started, resumes>>

\* the second call rejects: the error is logged
RetryRejects(u) ==
    /\ units[u].phase = "retry"
    /\ SetP(ConsumeEnd(P, u))
    /\ UNCHANGED <<started, resumes>>

Handler ==
    \E u \in 1..Len(units) :
        \/ HandlerResolves(u)
        \/ HandlerRejects(u)
        \/ BackoffElapsed(u)
        \/ RetryResolves(u)
        \/ RetryRejects(u)

NextParallel ==
    \/ Start
    \/ PausePar
    \/ ResumePar
    \/ WaitFinish
    \/ Handler

\* ------------------------------------------------------------------ specifications

Init == InitQ /\ NoExec /\ NoParallel

Spec == Init /\ [][Next]_vars

\* a Queue that is built and never used
NoQueue ==
    /\ _concurrence = 1
    /\ _active = FALSE
    /\ _queue = <<>>
    /\ _availableThread = <<>>
    /\ _pool = <<>>
    /\ _onceResolver = 0
    /\ requests = <<>>
    /\ posts = <<>>
    /\ posted = 0
    /\ hung = FALSE
    /\ crashed = FALSE
    /\ stopping = FALSE
    /\ inits = 0

InitExecute == NoQueue /\ NoExec /\ NoParallel

SpecExecute == InitExecute /\ [][NextExecute]_vars

InitParallel == NoQueue /\ NoExec /\ InitP

SpecParallel == InitParallel /\ [][NextParallel]_vars

\* Worker threads run on their own and Node delivers their events; the
\* timer of stop()'s polling loop fires.  Calls made by the user of the
\* Queue are not forced.
FairSpec ==
    /\ Init
    /\ [][Next]_vars
    /\ WF_vars(Worker)
    /\ WF_vars(StopPoll)

\* the Queue built with a handler that may throw
SpecThrows == Init /\ [][NextThrows]_vars

\* Every call of the handler settles and the timer of the backoff fires.
\* Calls made by the user of the Parallel are not forced.
FairSpecParallel ==
    /\ InitParallel
    /\ [][NextParallel]_vars
    /\ WF_vars(Handler)

\* ------------------------------------------------------------------ claims

\* slots of _pool whose current request has not settled
BusySlots ==
    {p \in 1..Len(_pool) :
        /\ _pool[p].resolver # 0
        /\ requests[_pool[p].resolver].state = "pending"}

\* positions of item i in the backlog / requests made for item i
QueuedAt(i) == {k \in 1..Len(_queue) : _queue[k] = i}
IssuedAs(i) == {r \in 1..Len(requests) : requests[r].item = i}

\* C1: once the pool is initialized, the idle indices plus the channels with
\* a request in flight number _concurrence, and no index is idle twice.
C1_IdleBusyAccounting ==
    Len(_pool) > 0 =>
        /\ Len(_availableThread) + Cardinality(BusySlots) = _concurrence
        /\ \A j, k \in 1..Len(_availableThread) :
              j # k => _availableThread[j] # _availableThread[k]

\* C2: every posted item is either in the backlog once and not issued, or
\* issued as exactly one request (on one channel) and not in the backlog.
C2_QueuedOrIssuedOnce ==
    \A i \in 1..posted :
        Cardinality(QueuedAt(i)) + Cardinality(IssuedAs(i)) = 1

C2_Witness ==
    /\ _concurrence = 2
    /\ Len(requests) = 2
    /\ requests[1].idx # requests[2].idx
    /\ Len(_queue) = 1

\* C3: items are issued in the order they were posted: the requests carry
\* increasing item numbers and every backlog item is newer than every issued
\* one, in backlog order.
C3_FifoDispatch ==
    /\ \A r1, r2 \in 1..Len(requests) :
          r1 < r2 => requests[r1].item < requests[r2].item
    /\ \A r \in 1..Len(requests), k \in 1..Len(_queue) :
          requests[r].item < _queue[k]
    /\ \A j, k \in 1..Len(_queue) : j < k => _queue[j] < _queue[k]

\* three items issued, a later one settled while an earlier one is pending
C3_Witness ==
    /\ Len(requests) = 3
    /\ \E r1, r2 \in 1..3 :
          /\ r1 < r2
          /\ requests[r1].state = "pending"
          /\ requests[r2].state = "ok"

\* C4: a step that starts and ends with the pool inactive issues no request
\* and removes nothing from the backlog.
C4_NoDispatchWhileInactive ==
    [][(~_active /\ ~_active') =>
          /\ Len(requests') = Len(requests)
          /\ Len(_queue') >= Len(_queue)
          /\ SubSeq(_queue', 1, Len(_queue)) = _queue]_vars

\* _consume was called on an inactive pool with an idle channel and a backlog
C4_Witness ==
    /\ ~_active
    /\ hung
    /\ Len(_availableThread) > 0
    /\ Len(_queue) > 0
    /\ Len(requests) > 0

\* C5: in a pool initialized once and not being stopped, a request that
\* settles while the pool is paused leaves the coordinator able to run the
\* next call or event.
C5_SettleWhilePausedReturns ==
    [][(/\ ~_active
        /\ ~stopping
        /\ Len(_pool) = _concurrence
        /\ \A p \in 1..Len(_pool) : ~_pool[p].closed
        /\ \E r \in 1..Len(requests) :
              requests[r].state = "pending" /\ requests'[r].state # "pending")
       => ~hung']_vars

\* C6: the step of stop() that terminates the Threads is taken only when no
\* channel has a request in flight, and it terminates every Thread of _pool.
C6_StopClosesIdlePool ==
    [][(\E p \in 1..Len(_pool) : ~_pool[p].closed /\ _pool'[p].closed) =>
          /\ BusySlots = {}
          /\ \A p \in 1..Len(_pool') : _pool'[p].closed]_vars

C8_BacklogDrainsDespiteFailures ==
    []<>(\/ ~_active
         \/ stopping
         \/ Len(_pool) # _concurrence
         \/ \E p \in 1..Len(_pool) : _pool[p].closed
         \/ Len(_queue) = 0)

\* C9: once the future of a Thread.Execute call has settled, resolved or
\* rejected, the Thread the call opened has been closed.
C9_ExecuteClosesItsThread ==
    \A e \in 1..Len(execs) :
        execs[e].result # "none" => execs[e].thread.closed

\* C10: the cursor never passes count, every consume invocation got an index
\* in 1..count, and no two invocations got the same index.
C10_CursorWithinCount ==
    /\ offsetCount <= count
    /\ \A u \in 1..Len(units) : units[u].index \in 1..count
    /\ \A u, v \in 1..Len(units) : u # v => units[u].index # units[v].index

\* C11: a retry calls the handler with the index the failed first call of the
\* same consume invocation received.
C11_RetrySameIndex ==
    \A u \in 1..Len(units) :
        units[u].phase = "retry" => units[u].retried = units[u].index

\* C12: a waitFinish() future that was not returned resolved is resolved
\* later on, unless the Parallel is paused.
C12_WaitFinishResolves ==
    \A w \in 1..MaxWait :
        [](Len(waits) >= w => <>(paused \/ (Len(waits) >= w /\ waits[w])))

\* C13: the registered finish waiter is signalled once and no more: never
\* twice, and once every loop has ended it has been signalled.
C13_SignalledExactlyOnce ==
    /\ signals <= 1
    /\ (started /\ processingCount = 0 /\ finishHandler # 0) => signals = 1

\* C14: a pause() that finds units in flight sets the paused flag and returns
\* a promise that is still pending, and while the flag is set only resume()
\* moves the cursor.
C14_PauseHoldsLoops ==
    [][/\ (pauses' # pauses /\ processingCount > 0)
            => (paused' /\ ~pauses'[1].resolved)
       /\ (paused /\ processingCount > 0) => offsetCount' = offsetCount]_vars

\* no call of the handler has failed so far
NeverFailed == ~failed

\* C15: with concurrency < count, no resume() and a handler that never fails,
\* the step that signals the finish waiter leaves the cursor at count, nothing
\* in flight and the handler completed for each of the count units.
C15_SignalAfterAllUnits ==
    [][(signals' > signals /\ concurrency < count /\ resumes = 0 /\ NeverFailed')
          => /\ offsetCount' = count
             /\ processingCount' = 0
             /\ Len(units') = count
             /\ \A u \in 1..count : units'[u].phase = "ended"]_vars

\* three units run by two loops, the waiter signalled
C15_Witness ==
    /\ count = 3
    /\ concurrency = 2
    /\ resumes = 0
    /\ NeverFailed
    /\ finishHandler # 0
    /\ signals = 1

\* C16: a request that has not settled is still the one its channel will
\* settle: the pending pair of its Thread has not been overwritten.
C16_NoPendingPairOverwritten ==
    \A r \in 1..Len(requests) :
        requests[r].state = "pending"
            => _pool[requests[r].idx + 1].resolver = r

\* C17: no request is issued on a channel one of whose earlier requests was
\* rejected.
C17_NoReuseAfterError ==
    [][\A r \in (Len(requests) + 1)..Len(requests') :
          \A q \in 1..Len(requests) :
              requests'[q].idx = requests'[r].idx
                  => requests'[q].state # "err"]_vars

\* C18: for a request that has settled the handler was invoked once, with an
\* Error exactly when the request was rejected, and the index of its channel
\* was pushed back once.
C18_HandlerOncePerSettlement ==
    \A r \in 1..Len(requests) :
        requests[r].state # "pending"
            => /\ requests[r].calls = 1
               /\ requests[r].pushes = 1
               /\ requests[r].error <=> (requests[r].state = "err")

\* C19: while stop() is in its polling loop on a pool initialized once, a
\* request that settles leaves the event loop free, so that the next poll of
\* stop() can run.
C19_StopReturns ==
    [][(/\ stopping
        /\ Len(_pool) = _concurrence
        /\ \E r \in 1..Len(requests) :
              requests[r].state = "pending" /\ requests'[r].state # "pending")
       => ~hung']_vars

\* a request that can no longer settle: it is pending on a worker that has
\* exited
Unsettleable ==
    \E r \in 1..Len(requests) :
        /\ requests[r].state = "pending"
        /\ _pool[requests[r].idx + 1].worker = "exited"

\* the pool is initialized once, active and not being stopped
Ready ==
    /\ _active
    /\ ~stopping
    /\ Len(_pool) = _concurrence
    /\ \A p \in 1..Len(_pool) : ~_pool[p].closed

\* C20: if the pool is initialized and active before the first
\* post(items, true) and stays so, every promise returned by post(items, true)
\* is resolved sooner or later, unless a request is left that cannot settle.
C20_OnceFutureResolves ==
    []((Ready /\ Len(posts) = 0 /\ []Ready)
          => []<>(\/ \A p \in 1..Len(posts) : posts[p].resolved
                  \/ Unsettleable))

=============================================================================
